---- MODULE Spec2Model ----
(***************************************************************************)
(* Model of the PGM-index evaluation harness:                              *)
(*   experiments/pgm_query.cpp  - lower_bound_branchless, generate_queries,*)
(*                                query_time, measure_perfomance           *)
(*   examples/playground.cpp    - the dynamic workload driver (second main)*)
(* Positions are 0-based as in the C++ code; the TLA+ sequence holding the *)
(* dataset is 1-based, so the element at position i is dataset[i + 1].     *)
(***************************************************************************)
EXTENDS Integers, Sequences, FiniteSets, TLC

\* ---------------------------------------------------------------- bounds
MaxKey == 2
MaxLen == 4
\* largest key and largest dataset size of the benchmark program
QMaxKey == 1
QMaxLen == 2
\* uint64_t NUM_LOOKUPS = 10000000, scaled down
NUM_LOOKUPS == 2
\* int nelements = 1000000, scaled down
nelements == 3
\* the 10000 never-seen samples, scaled down
NeverSeen == 2
\* the largest sample value (INT_MAX, scaled down)
MaxSample == 4

Keys == 0..MaxKey
QKeys == 0..QMaxKey

VARIABLES
    pc,          \* position of the running program
    dataset,     \* std::vector<uint64_t> dataset (sorted ascending)
    lo, hi,      \* approx_range.lo / approx_range.hi handed to the refiner
    value,       \* the key searched for
    junk,        \* what a read one past the end of the dataset yields
    first, n,    \* locals of lower_bound_branchless
    touched,     \* positions whose element the refiner has compared
    iters,       \* iterations of the halving loop executed so far
    result,      \* position returned by lower_bound_branchless
    queries,     \* measure_perfomance: the (key, correct_lb) pairs
    drawn,       \* generate_queries: the idx drawn for each pair
    calls,       \* query_time: the calls f(q.first, q.second) made so far
    pred_correct, pred_incorrect,   \* the tally of measure_perfomance
    cnt,         \* query_time: the accumulated results (uint64_t; the sum of
                 \* NUM_LOOKUPS positions stays far below 2^64)
    samples,     \* playground: std::set<int> samples
    data,        \* playground: std::vector<int> data
    dynamic_pgm, \* playground: the dynamic index, key -> value
    it,          \* playground: position of the iterator of the running loop
    counter,     \* playground: int counter
    correct_idx, \* playground: int correct_idx
    samples_never_seen_before,   \* playground: the second std::set<int>
    ops,         \* playground: the index operations issued so far
    reported     \* playground: the element count printed after the inserts

refineVars == <<first, n, touched, iters>>
queryVars == <<queries, drawn, calls, pred_correct, pred_incorrect, cnt>>

dynVars == <<samples, data, dynamic_pgm, it, counter, correct_idx,
             samples_never_seen_before, ops, reported>>

vars == <<pc, dataset, lo, hi, value, junk, result, refineVars, queryVars,
          dynVars>>

\* the dynamic workload's variables before its program starts
DynIdle ==
    /\ samples = {}
    /\ data = <<>>
    /\ dynamic_pgm = <<>>
    /\ it = 0
    /\ counter = 0
    /\ correct_idx = 0
    /\ samples_never_seen_before = {}
    /\ ops = <<>>
    /\ reported = 0

\* ------------------------------------------------------------ the dataset
IsSorted(s) == \A i \in 1..(Len(s) - 1) : s[i] <= s[i + 1]

SortedSeqs(keys, maxLen) ==
    { s \in UNION { [1..l -> keys] : l \in 0..maxLen } : IsSorted(s) }

\* *(dataset.begin() + i): a read at position Len(D) is one past the end of
\* the vector and yields an arbitrary value.
Elem(D, i, j) == IF i < Len(D) THEN D[i + 1] ELSE j

\* ------------------------------------------- lower_bound_branchless (40-53)
\* a comparison that also accepts equal elements (an upper-bound search)
comp_leq(a, b) == a <= b

\* Compare = std::less<T>
comp(a, b) == a < b

\* auto n = std::distance(first, last);
distance(f, l) == l - f

\* first = comp(*std::next(first, half), value) ? first + half : first;
HalveFirst(D, f, m, v, j) ==
    LET half == m \div 2
    IN  IF comp(Elem(D, f + half, j), v) THEN f + half ELSE f

\* the probed element dropped from the window as well: n -= half + 1
HalveN_skip(m) == m - (m \div 2) - 1

\* n -= half;
HalveN(m) == m - (m \div 2)

\* while (n > 1) { ... }   returns the value of `first` when the loop exits
RECURSIVE HalvingLoop(_, _, _, _, _)
HalvingLoop(D, f, m, v, j) ==
    IF m > 1 THEN HalvingLoop(D, HalveFirst(D, f, m, v, j), HalveN(m), v, j)
             ELSE f

\* return first;   (the final comparison dropped)
ReturnPos_first(D, f, v, j) == f

\* return std::next(first, comp(*first, value));
ReturnPos(D, f, v, j) == f + (IF comp(Elem(D, f, j), v) THEN 1 ELSE 0)

lower_bound_branchless(D, l, h, v, j) ==
    ReturnPos(D, HalvingLoop(D, l, distance(l, h), v, j), v, j)

\* ----------------------------------------------- std::lower_bound (97, 186)
\* The library's branching binary search over [f, f + len).
RECURSIVE StdLoop(_, _, _, _)
StdLoop(D, f, len, v) ==
    IF len > 0
    THEN LET half == len \div 2
             middle == f + half
         IN  IF D[middle + 1] < v
             THEN StdLoop(D, middle + 1, len - half - 1, v)
             ELSE StdLoop(D, f, half, v)
    ELSE f

std_lower_bound(D, l, h, v) == StdLoop(D, l, h - l, v)

\* ------------------------------------- the refiner run one step at a time
InitRefine ==
    /\ dataset \in SortedSeqs(Keys, MaxLen)
    /\ lo \in 0..Len(dataset)
    /\ hi \in lo..Len(dataset)
    /\ value \in Keys
    /\ junk \in Keys
    /\ pc = "call"
    /\ first = lo
    /\ n = 0
    /\ touched = {}
    /\ iters = 0
    /\ result = 0
    /\ queries = <<>>
    /\ drawn = <<>>
    /\ calls = <<>>
    /\ pred_correct = 0
    /\ pred_incorrect = 0
    /\ cnt = 0
    /\ DynIdle

\* line 42
RefineEnter ==
    /\ pc = "call"
    /\ n' = distance(first, hi)
    /\ pc' = "loop"
    /\ UNCHANGED <<dataset, lo, hi, value, junk, first, touched, iters, result, queryVars, dynVars>>

\* lines 44-50, one iteration (the two prefetches are hints and change nothing)
RefineHalve ==
    /\ pc = "loop"
    /\ n > 1
    /\ first' = HalveFirst(dataset, first, n, value, junk)
    /\ n' = HalveN(n)
    /\ touched' = touched \cup {first + (n \div 2)}
    /\ iters' = iters + 1
    /\ UNCHANGED <<pc, dataset, lo, hi, value, junk, result, queryVars, dynVars>>

\* line 52
RefineReturn ==
    /\ pc = "loop"
    /\ ~(n > 1)
    /\ result' = ReturnPos(dataset, first, value, junk)
    /\ touched' = touched \cup {first}
    /\ pc' = "done"
    /\ UNCHANGED <<dataset, lo, hi, value, junk, first, n, iters, queryVars, dynVars>>

NextRefine == RefineEnter \/ RefineHalve \/ RefineReturn

SpecRefine == InitRefine /\ [][NextRefine]_vars

\* ---------------------------------------- pgm_query.cpp: measure_perfomance
\* std::uniform_int_distribution<size_t> distribution(a, b): the closed
\* interval [a, b]
uniform_int_distribution(a, b) == a..b

\* line 90: distribution(0, dataset.size())
IdxDistribution(D) == uniform_int_distribution(0, Len(D))

\* index.search(x): the ranges the external index may answer with. Its contract
\* puts the true lower-bound position inside [lo, hi); an answer that does not
\* is the contract violation the tally counts.
search(D, x) == { r \in (0..Len(D)) \X (0..Len(D)) : r[1] <= r[2] }

\* a tally that counts a mismatch as correct too
Oracle_bothCorrect(lb_position, expected_idx, c, i) == <<c + 1, i>>

\* lines 193-209: the new (pred_correct, pred_incorrect)
Oracle(lb_position, expected_idx, c, i) ==
    IF lb_position # expected_idx THEN <<c, i + 1>> ELSE <<c + 1, i>>

InitQuery ==
    /\ pc = "load"
    /\ dataset = <<>>
    /\ lo = 0 /\ hi = 0 /\ value = 0 /\ junk = 0 /\ result = 0
    /\ first = 0 /\ n = 0 /\ touched = {} /\ iters = 0
    /\ queries = <<>>
    /\ drawn = <<>>
    /\ calls = <<>>
    /\ pred_correct = 0
    /\ pred_incorrect = 0
    /\ cnt = 0
    /\ DynIdle

\* lines 61-80 called at 157: the file opens and holds a sorted array
LoadData ==
    /\ pc = "load"
    /\ dataset' \in SortedSeqs(QKeys, QMaxLen)
    /\ pc' = "generate"
    /\ UNCHANGED <<lo, hi, value, junk, result, refineVars, queryVars, dynVars>>

\* lines 65-68: unable to open the file, exit(EXIT_FAILURE)
LoadFail ==
    /\ pc = "load"
    /\ pc' = "exit"
    /\ UNCHANGED <<dataset, lo, hi, value, junk, result, refineVars, queryVars, dynVars>>

\* lines 92-101, one iteration of generate_queries; j is what the read of
\* dataset[idx] yields when idx is past the last element
GenerateQuery ==
    /\ pc = "generate"
    /\ Len(queries) < NUM_LOOKUPS
    /\ \E idx \in IdxDistribution(dataset), j \in QKeys :
          LET key == Elem(dataset, idx, j)
              correct_lb == std_lower_bound(dataset, 0, Len(dataset), key)
          IN  /\ queries' = Append(queries, <<key, correct_lb>>)
              /\ drawn' = Append(drawn, idx)
    /\ UNCHANGED <<pc, dataset, lo, hi, value, junk, result, refineVars,
                   calls, pred_correct, pred_incorrect, cnt, dynVars>>

\* lines 103, 160-172: the workload is complete, the index is built
BuildIndex ==
    /\ pc = "generate"
    /\ ~(Len(queries) < NUM_LOOKUPS)
    /\ pc' = "query"
    /\ UNCHANGED <<dataset, lo, hi, value, junk, result, refineVars, queryVars, dynVars>>

\* lines 140-141 with the lambda of lines 174-211: one query of the workload
Query ==
    /\ pc = "query"
    /\ Len(calls) < Len(queries)
    /\ LET q == queries[Len(calls) + 1]
           x == q[1]
           expected_idx == q[2]
       IN  \E approx_range \in search(dataset, x), j \in QKeys :
             LET lb_position == lower_bound_branchless(
                     dataset, approx_range[1], approx_range[2], x, j)
                 tally == Oracle(lb_position, expected_idx,
                                 pred_correct, pred_incorrect)
             IN  /\ pred_correct' = tally[1]
                 /\ pred_incorrect' = tally[2]
                 /\ cnt' = cnt + lb_position
                 /\ calls' = Append(calls, [key |-> x, expected |-> expected_idx,
                                            computed |-> lb_position])
    /\ UNCHANGED <<pc, dataset, lo, hi, value, junk, result, refineVars,
                   queries, drawn, dynVars>>

\* lines 143-146, 213-214: the workload is exhausted, the results are printed
Report ==
    /\ pc = "query"
    /\ ~(Len(calls) < Len(queries))
    /\ pc' = "done"
    /\ UNCHANGED <<dataset, lo, hi, value, junk, result, refineVars, queryVars, dynVars>>

NextQuery ==
    LoadData \/ LoadFail \/ GenerateQuery \/ BuildIndex \/ Query \/ Report

SpecQuery == InitQuery /\ [][NextQuery]_vars

\* ------------------------------------- playground.cpp: the dynamic workload
SampleKeys == 0..MaxSample

\* iteration order of a std::set<int>: ascending
RECURSIVE SetToSeq(_)
SetToSeq(S) ==
    IF S = {} THEN <<>>
    ELSE LET m == CHOOSE x \in S : \A y \in S : x <= y
         IN  <<m>> \o SetToSeq(S \ {m})

\* std::sort(data.begin(), data.end())
RECURSIVE InsertSorted(_, _)
InsertSorted(s, x) ==
    IF s = <<>> THEN <<x>>
    ELSE IF x <= Head(s) THEN <<x>> \o s
    ELSE <<Head(s)>> \o InsertSorted(Tail(s), x)

RECURSIVE std_sort(_)
std_sort(s) ==
    IF s = <<>> THEN <<>> ELSE InsertSorted(std_sort(Tail(s)), Head(s))

\* The external dynamic index, by its contract: a map from key to value.
end_it == <<>>
insert_or_assign(idx, k, v) ==
    [x \in (DOMAIN idx) \cup {k} |-> IF x = k THEN v ELSE idx[x]]
erase(idx, k) == [x \in (DOMAIN idx) \ {k} |-> idx[x]]
find(idx, k) == IF k \in DOMAIN idx THEN <<k, idx[k]>> ELSE end_it
size(idx) == Cardinality(DOMAIN idx)

\* the first position of a vector loop stopped one element early
LoopEnd_short(d) == Len(d) - 1

\* it != data.end()
LoopEnd(d) == Len(d)

\* erase at the odd ordinals instead
ShouldErase_odd(c) == c % 2 = 1

\* line 149: if (counter % 2 == 0)
ShouldErase(c) == c % 2 = 0

\* the count compared with the number of elements, the run aborted on a
\* mismatch
AfterReport_assert(count, m) == IF count = m THEN "d_erase" ELSE "abort"

\* lines 139-147: the count is printed and the run goes on to the erase loop
AfterReport(count, m) == "d_erase"

InitDyn ==
    /\ pc = "d_load"
    /\ dataset = <<>>
    /\ lo = 0 /\ hi = 0 /\ value = 0 /\ junk = 0 /\ result = 0
    /\ first = 0 /\ n = 0 /\ touched = {} /\ iters = 0
    /\ queries = <<>> /\ drawn = <<>> /\ calls = <<>>
    /\ pred_correct = 0 /\ pred_incorrect = 0 /\ cnt = 0
    /\ DynIdle

DynFrame == UNCHANGED <<dataset, lo, hi, value, junk, result, refineVars, queryVars>>

\* lines 91-92: the dataset file opens (its content is not used afterwards)
DynLoad ==
    /\ pc = "d_load"
    /\ pc' = "d_generate"
    /\ DynFrame /\ UNCHANGED dynVars

\* lines 73-76: unable to open the file, exit(EXIT_FAILURE)
DynLoadFail ==
    /\ pc = "d_load"
    /\ pc' = "exit"
    /\ DynFrame /\ UNCHANGED dynVars

\* lines 114-121, one iteration: a draw above max (here MaxSample + 1) is
\* skipped, any other is inserted into the set
DrawSample ==
    /\ pc = "d_generate"
    /\ Cardinality(samples) < nelements
    /\ \E r \in 0..(MaxSample + 1) :
          samples' = IF r > MaxSample THEN samples ELSE samples \cup {r}
    /\ DynFrame
    /\ UNCHANGED <<pc, data, dynamic_pgm, it, counter, correct_idx,
                   samples_never_seen_before, ops, reported>>

\* lines 127-134: the vector is built and sorted, the empty index constructed,
\* the insert loop entered
BuildData ==
    /\ pc = "d_generate"
    /\ ~(Cardinality(samples) < nelements)
    /\ data' = std_sort(SetToSeq(samples))
    /\ dynamic_pgm' = <<>>
    /\ it' = 0
    /\ pc' = "d_insert"
    /\ DynFrame
    /\ UNCHANGED <<samples, counter, correct_idx, samples_never_seen_before,
                   ops, reported>>

\* lines 134-137, one iteration
InsertStep ==
    /\ pc = "d_insert"
    /\ it # LoopEnd(data)
    /\ dynamic_pgm' = insert_or_assign(dynamic_pgm, data[it + 1], 1)
    /\ ops' = Append(ops, <<"insert", data[it + 1]>>)
    /\ it' = it + 1
    /\ DynFrame
    /\ UNCHANGED <<pc, samples, data, counter, correct_idx,
                   samples_never_seen_before, reported>>

\* lines 139-148: the element count is printed, the erase loop entered
ReportStep(count) ==
    /\ pc = "d_insert"
    /\ it = LoopEnd(data)
    /\ reported' = count
    /\ counter' = 0
    /\ it' = 0
    /\ pc' = AfterReport(reported', Len(data))
    /\ DynFrame
    /\ UNCHANGED <<samples, data, dynamic_pgm, correct_idx,
                   samples_never_seen_before, ops>>

\* lines 148-153, one iteration
EraseStep ==
    /\ pc = "d_erase"
    /\ it # LoopEnd(data)
    /\ IF ShouldErase(counter)
       THEN /\ dynamic_pgm' = erase(dynamic_pgm, data[it + 1])
            /\ ops' = Append(ops, <<"erase", data[it + 1]>>)
       ELSE UNCHANGED <<dynamic_pgm, ops>>
    /\ counter' = counter + 1
    /\ it' = it + 1
    /\ DynFrame
    /\ UNCHANGED <<pc, samples, data, correct_idx, samples_never_seen_before,
                   reported>>

\* lines 155-164: the counters are reset, the query loop entered
EraseDone ==
    /\ pc = "d_erase"
    /\ it = LoopEnd(data)
    /\ correct_idx' = 0
    /\ counter' = 0
    /\ it' = 0
    /\ pc' = "d_verify"
    /\ DynFrame
    /\ UNCHANGED <<samples, data, dynamic_pgm, samples_never_seen_before, ops,
                   reported>>

\* lines 164-223, one iteration: the result of find is not looked at
VerifyStep ==
    /\ pc = "d_verify"
    /\ it # LoopEnd(data)
    /\ ops' = Append(ops, <<"find", data[it + 1]>>)
    /\ correct_idx' = correct_idx + 1
    /\ it' = it + 1
    /\ DynFrame
    /\ UNCHANGED <<pc, samples, data, dynamic_pgm, counter,
                   samples_never_seen_before, reported>>

\* lines 223-233: the query loop is left
VerifyDone ==
    /\ pc = "d_verify"
    /\ it = LoopEnd(data)
    /\ samples_never_seen_before' = {}
    /\ pc' = "d_never"
    /\ DynFrame
    /\ UNCHANGED <<samples, data, dynamic_pgm, it, counter, correct_idx, ops,
                   reported>>

\* lines 233-238, one iteration: std::rand() into the set
DrawNever ==
    /\ pc = "d_never"
    /\ Cardinality(samples_never_seen_before) < NeverSeen
    /\ \E r \in SampleKeys :
          samples_never_seen_before' = samples_never_seen_before \cup {r}
    /\ DynFrame
    /\ UNCHANGED <<pc, samples, data, dynamic_pgm, it, counter, correct_idx,
                   ops, reported>>

\* line 239: the loop over the second set is entered
NeverDone ==
    /\ pc = "d_never"
    /\ ~(Cardinality(samples_never_seen_before) < NeverSeen)
    /\ it' = 0
    /\ pc' = "d_negative"
    /\ DynFrame
    /\ UNCHANGED <<samples, data, dynamic_pgm, counter, correct_idx,
                   samples_never_seen_before, ops, reported>>

\* lines 239-243, one iteration
NegativeStep ==
    /\ pc = "d_negative"
    /\ it # Cardinality(samples_never_seen_before)
    /\ ops' = Append(ops, <<"find", SetToSeq(samples_never_seen_before)[it + 1]>>)
    /\ it' = it + 1
    /\ DynFrame
    /\ UNCHANGED <<pc, samples, data, dynamic_pgm, counter, correct_idx,
                   samples_never_seen_before, reported>>

\* line 246: return 0
NegativeDone ==
    /\ pc = "d_negative"
    /\ it = Cardinality(samples_never_seen_before)
    /\ pc' = "done"
    /\ DynFrame /\ UNCHANGED dynVars

DriverSteps ==
    \/ DynLoad \/ DynLoadFail \/ DrawSample \/ BuildData \/ InsertStep
    \/ EraseStep \/ EraseDone \/ VerifyStep \/ VerifyDone
    \/ DrawNever \/ NeverDone \/ NegativeStep \/ NegativeDone

\* line 139 over an index that honours its contract
ReportCount == ReportStep(size(dynamic_pgm))

NextDyn == DriverSteps \/ ReportCount

SpecDyn == InitDyn /\ [][NextDyn]_vars

\* line 139 over an index whose size() answers with any count: the divergence
\* of the reported cardinality from the number of inserted elements
ReportAnyCount == \E c \in 0..(nelements + 1) : ReportStep(c)

NextDynDiverging == DriverSteps \/ ReportAnyCount

SpecDynDiverging == InitDyn /\ [][NextDynDiverging]_vars

\* The true lower-bound position of v in the whole of D.
LowerBoundPos(D, v) ==
    CHOOSE p \in 0..Len(D) :
        /\ \A i \in 0..(p - 1) : D[i + 1] < v
        /\ p < Len(D) => D[p + 1] >= v

\* ------------------------------------------------------------------ C1
\* C1: on a non-empty range [lo, hi) whose closure [lo, hi] contains the true
\* lower-bound position p of the key in the whole dataset, the refiner
\* returns exactly p.
C1_RefinerExact ==
    LET p == LowerBoundPos(dataset, value)
    IN  (pc = "done" /\ lo < hi /\ lo <= p /\ p <= hi) => result = p

\* a run over a range of at least three elements, with duplicates of the key,
\* whose loop iterated and which returned the first occurrence strictly inside
W1_RefinerExact ==
    LET p == LowerBoundPos(dataset, value)
    IN  /\ pc = "done"
        /\ hi - lo >= 3 /\ lo < p /\ p + 1 < hi
        /\ dataset[p + 1] = value /\ dataset[p + 2] = value
        /\ iters >= 2
        /\ result = p

\* ------------------------------------------------------------------ C2
\* C2 (as claimed): on a range with hi - lo <= 1 the refiner returns lo and
\* executes no iteration of the halving loop.
C2_DegenerateReturnsLo ==
    (pc = "done" /\ hi - lo <= 1) => (result = lo /\ iters = 0)

\* C2 (amended): on a range with hi - lo <= 1 the refiner executes no
\* iteration, compares exactly the element at lo, and returns lo when that
\* element is not less than the key and lo + 1 when it is; on a one-element
\* range that element is dataset[lo], so the result is the lower bound within
\* the range.
C2_DegenerateOneComparison ==
    (pc = "done" /\ hi - lo <= 1) =>
        /\ iters = 0
        /\ touched = {lo}
        /\ result \in {lo, lo + 1}
        /\ (result = lo + 1) <=> (Elem(dataset, lo, junk) < value)
        /\ hi = lo + 1 => result = std_lower_bound(dataset, lo, hi, value)

\* a one-element range whose element is less than the key: the result is hi
W2_DegenerateOneComparison ==
    /\ pc = "done"
    /\ hi = lo + 1
    /\ dataset[lo + 1] < value
    /\ result = lo + 1

\* ------------------------------------------------------------------ C5
\* C5: on every range 0 <= lo <= hi <= len(D), empty ranges included, the
\* refiner returns the position std::lower_bound returns on the same range.
C5_SameAsStdLowerBound ==
    pc = "done" => result = std_lower_bound(dataset, lo, hi, value)

\* ------------------------------------------------------------------ C10
\* C10: on a non-empty range the candidate window [first, first + n) stays
\* inside [lo, hi) with n >= 1, only positions of [lo, hi) are compared, the
\* returned position is in [lo, hi], and every loop iteration strictly
\* decreases n.
WindowInside ==
    (lo < hi /\ pc \in {"loop", "done"}) =>
        /\ n >= 1
        /\ lo <= first /\ first + n <= hi
        /\ touched \subseteq lo..(hi - 1)
        /\ pc = "done" => result \in lo..hi

WindowShrinks ==
    (lo < hi /\ pc = "loop" /\ pc' = "loop") => (n' < n /\ n' >= 1)

C10_WindowSafety == []WindowInside /\ [][WindowShrinks]_vars

\* a run over a four-element range that iterated twice, moved first, and
\* compared the last element of the range
W10_WindowSafety ==
    /\ pc = "done"
    /\ hi - lo = 4
    /\ iters = 2
    /\ first = hi - 1
    /\ (hi - 1) \in touched
    /\ result = hi

\* ------------------------------------------------------------------ C3
\* C3: over a non-empty dataset every index drawn by generate_queries lies in
\* [0, len(Dataset)), and so every generated key is the value of an element of
\* the dataset.
C3_IndexInBounds ==
    Len(dataset) > 0 =>
        \A k \in 1..Len(drawn) :
            /\ drawn[k] < Len(dataset)
            /\ \E i \in 1..Len(dataset) : dataset[i] = queries[k][1]

\* ------------------------------------------------------------------ C4
\* C4: every generated pair (key, expectedPosition) has expectedPosition the
\* smallest position whose element is >= key (len(Dataset) if none), and for
\* the index idx the key was sampled at, Dataset[expectedPosition] = key and
\* expectedPosition <= idx.
C4_ExpectedIsFirstOccurrence ==
    \A k \in 1..Len(queries) :
        LET key == queries[k][1]
            expected == queries[k][2]
        IN  /\ expected = LowerBoundPos(dataset, key)
            /\ expected < Len(dataset)
            /\ dataset[expected + 1] = key
            /\ expected <= drawn[k]

\* ------------------------------------------------------------------ C8
\* C8: every query is tallied exactly once: the calls made so far are the
\* first queries of the workload in order, pred_correct counts the calls whose
\* computed position equals the expected one and pred_incorrect the others,
\* their sum is the number of calls made, and at the end of the run it is the
\* size of the workload. A query step adds one to exactly one counter.
Matches == { k \in 1..Len(calls) : calls[k].computed = calls[k].expected }

TallyExact ==
    /\ Len(calls) <= Len(queries)
    /\ \A k \in 1..Len(calls) :
          calls[k].key = queries[k][1] /\ calls[k].expected = queries[k][2]
    /\ pred_correct = Cardinality(Matches)
    /\ pred_incorrect = Len(calls) - Cardinality(Matches)
    /\ pred_correct + pred_incorrect = Len(calls)
    /\ pc = "done" => Len(calls) = NUM_LOOKUPS /\ Len(queries) = NUM_LOOKUPS
    /\ pc \in {"load", "generate"} => Len(calls) = 0

TallyStep ==
    calls' # calls =>
        LET c == calls'[Len(calls')]
        IN  /\ Len(calls') = Len(calls) + 1
            /\ pc' = "query"
            /\ c.computed = c.expected =>
                  pred_correct' = pred_correct + 1 /\ pred_incorrect' = pred_incorrect
            /\ c.computed # c.expected =>
                  pred_incorrect' = pred_incorrect + 1 /\ pred_correct' = pred_correct

C8_TallyOncePerQuery == []TallyExact /\ [][TallyStep]_vars

\* a finished run that counted a match and then a mismatch
W8_TallyOncePerQuery ==
    /\ pc = "done"
    /\ Len(calls) = NUM_LOOKUPS
    /\ calls[1].computed = calls[1].expected
    /\ calls[2].computed # calls[2].expected
    /\ pred_correct >= 1
    /\ pred_incorrect >= 1

\* ------------------------------------------------------------------ C6
\* C6: from the end of the erase loop to the end of the run, every sample at
\* an even 0-based ordinal of the sorted samples is absent from the index,
\* every sample at an odd ordinal is present, and size() is floor(M / 2),
\* M being the number of samples.
AfterHalfDelete == pc \in {"d_verify", "d_never", "d_negative", "done"}

C6_HalfDeleted ==
    AfterHalfDelete =>
        /\ Len(data) = nelements
        /\ \A i \in 0..(Len(data) - 1) :
              /\ i % 2 = 0 => find(dynamic_pgm, data[i + 1]) = end_it
              /\ i % 2 = 1 => find(dynamic_pgm, data[i + 1]) # end_it
        /\ size(dynamic_pgm) = nelements \div 2

\* the finished run: ordinal 0 erased, ordinal 1 kept, ordinal 2 erased
W6_HalfDeleted ==
    /\ pc = "done"
    /\ Len(data) >= 3
    /\ find(dynamic_pgm, data[1]) = end_it
    /\ find(dynamic_pgm, data[2]) # end_it
    /\ find(dynamic_pgm, data[3]) = end_it
    /\ \E k \in 1..Len(ops) : ops[k] = <<"erase", data[3]>>

\* ------------------------------------------------------------------ C7
\* C7 (as claimed): a reported element count that differs from M ends the run
\* when the insert loop completes: the erase loop and the phases after it are
\* never executed with such a count.
PastReport == pc \in {"d_erase", "d_verify", "d_never", "d_negative", "done"}

C7_MismatchIsFatal == PastReport => reported = Len(data)

\* C7 (amended): when the insert loop completes the driver reads and prints
\* the reported element count and compares it with nothing: whatever the
\* count, the run leaves the insert loop for the erase loop, with the index
\* and the issued operations untouched, and never ends in an abort.
CountOnlyPrinted ==
    (pc = "d_insert" /\ pc' # "d_insert") =>
        /\ pc' = "d_erase"
        /\ Len(ops) = Len(data)
        /\ dynamic_pgm' = dynamic_pgm /\ ops' = ops

C7_CountOnlyPrinted == [](pc # "abort") /\ [][CountOnlyPrinted]_vars

\* a run that printed a count other than M and still ran every later phase
W7_CountOnlyPrinted ==
    /\ pc = "done"
    /\ reported # Len(data)
    /\ Len(data) = nelements
    /\ \E k \in 1..Len(ops) : ops[k][1] = "erase"
    /\ \E k \in 1..Len(ops) : ops[k][1] = "find"

\* ------------------------------------------------------------------ C9
\* C9: the phases run in the order Generate, BulkInsert, HalfDelete,
\* VerifyQuery, NegativeQuery and never go back; the issued operations are the
\* M inserts of the sorted samples, then the erases, then the finds; no erase
\* precedes the last insert and no find precedes the last erase; VerifyQuery
\* issues one find per sample in order, NegativeQuery one find per each of the
\* K distinct random keys; from the end of the erase loop on the index is not
\* changed.
KindRank(k) == CASE k = "insert" -> 1 [] k = "erase" -> 2 [] k = "find" -> 3

PhaseRank(p) ==
    CASE p = "d_load" -> 0 [] p = "d_generate" -> 1 [] p = "d_insert" -> 2
      [] p = "d_erase" -> 3 [] p = "d_verify" -> 4 [] p = "d_never" -> 5
      [] p = "d_negative" -> 6 [] p = "done" -> 7 [] OTHER -> 8

OpsOf(kind) == SelectSeq(ops, LAMBDA o : o[1] = kind)
KeysOf(kind) == [k \in 1..Len(OpsOf(kind)) |-> OpsOf(kind)[k][2]]

PhaseOrder ==
    /\ \A i, j \in 1..Len(ops) : i < j => KindRank(ops[i][1]) <= KindRank(ops[j][1])
    /\ PhaseRank(pc) \in 3..7 =>
          Len(data) = nelements /\ KeysOf("insert") = data
    /\ Len(OpsOf("erase")) > 0 => Len(OpsOf("insert")) = nelements
    /\ PhaseRank(pc) < 3 => Len(OpsOf("erase")) = 0
    /\ PhaseRank(pc) \in 4..7 =>
          /\ Len(OpsOf("erase")) = (nelements + 1) \div 2
          /\ \A k \in 1..Len(OpsOf("erase")) :
                OpsOf("erase")[k][2] = data[2 * k - 1]
    /\ PhaseRank(pc) < 4 => Len(OpsOf("find")) = 0
    /\ PhaseRank(pc) \in 5..6 =>
          SubSeq(KeysOf("find"), 1, nelements) = data
    /\ PhaseRank(pc) = 5 => Len(OpsOf("find")) = nelements
    /\ pc = "done" =>
          /\ Cardinality(samples_never_seen_before) = NeverSeen
          /\ KeysOf("find") = data \o SetToSeq(samples_never_seen_before)

PhaseStep ==
    /\ pc' # pc =>
          \/ PhaseRank(pc') = PhaseRank(pc) + 1
          \/ pc = "d_load" /\ pc' = "exit"
    /\ PhaseRank(pc) >= 4 => dynamic_pgm' = dynamic_pgm
    /\ PhaseRank(pc) >= 4 => \A k \in 1..Len(ops') : ops'[k][1] = "find" \/ k <= Len(ops)

C9_PhasesInOrder == []PhaseOrder /\ [][PhaseStep]_vars

\* the finished run: every insert, erase and find has been issued
W9_PhasesInOrder ==
    /\ pc = "done"
    /\ Len(OpsOf("insert")) = nelements
    /\ Len(OpsOf("erase")) = (nelements + 1) \div 2
    /\ Len(OpsOf("find")) = nelements + NeverSeen
    /\ ops[Len(ops)][1] = "find"
    /\ dynamic_pgm # <<>>

====
